---- MODULE Spec2Model ----
(***************************************************************************)
(* A model of bandersnatch's filesystem helpers:                           *)
(*   - utils.rewrite            (atomic rewrite of a file through a        *)
(*                               temporary sibling file)                   *)
(*   - utils.unlink_parent_dir  (remove a file and its parent if empty)    *)
(*   - abc.io.AIOBase           (asynchronous iteration over a stream,     *)
(*                               the stream as an 'async with' scope)      *)
(*   - abc.filelock.BaseFileLock (the lock as an 'async with' scope)       *)
(*   - utils.run_in_executor    (the executor decorator)                   *)
(*   - utils.bandersnatch_safe_name                                        *)
(*                                                                         *)
(* Path strings are sequences of one-character strings, so that dirname,   *)
(* basename and pathlib's parsing are computed, not assumed.  A file's     *)
(* content is a sequence of chunks; a chunk is <<owner, k>>, the k-th      *)
(* chunk written by owner.                                                 *)
(***************************************************************************)
EXTENDS Integers, Sequences, FiniteSets, TLC

VARIABLES
    dirents,    \* rewrite: directory entries, location -> inode id
    inodes,     \* rewrite: inode id -> [content, mode]
    pc,         \* rewrite: writer -> position in rewrite / the caller's body
    arg,        \* rewrite: writer -> the filepath argument of its call
    tmpname,    \* rewrite: writer -> filepath_tmp (f.name), a path string
    fopen,      \* rewrite: writer -> whether the temporary stream f is open
    buf,        \* rewrite: writer -> chunks written to f and not yet flushed
    written,    \* rewrite: writer -> everything the caller wrote to f
    drawn,      \* rewrite: the random name parts tempfile has used
    err,        \* rewrite: writer -> the error its scope or call raised
    removed,    \* rewrite: writer -> whether the caller removed the temporary file
    tree,       \* unlink_parent_dir: location -> "file" | "dir"
    upc,        \* unlink_parent_dir: position of the current call
    upath,      \* unlink_parent_dir: the path argument of the current call
    upre,       \* unlink_parent_dir: the tree when the current call started
    ucalls,     \* unlink_parent_dir: number of calls started
    content,    \* stream: the bytes of the stream
    pos,        \* stream: cursor position (bytes consumed)
    rlog,       \* stream: results of the readline() calls made by __anext__
    yielded,    \* stream: the lines the iteration has yielded
    ipc,        \* stream: "iter" while iterating, "stopped" after StopAsyncIteration
    sscopes,    \* stream scope: the streams of the open scopes, innermost last
    sexc,       \* stream scope: the exception in flight, or "none"
    sclose,     \* stream scope: stream -> number of close() calls
    sexit,      \* stream scope: stream -> number of scopes over it that were left
    sthrown,    \* stream scope: number of exceptions raised in a body
    scaught,    \* stream scope: number of exceptions that reached the caller
    token,      \* lock: the lock object that holds the lock token, or "none"
    counter,    \* lock: lock object -> its reentrancy counter
    scopes,     \* lock: task -> the locks of its open scopes, innermost last
    lexc,       \* lock: task -> the exception in flight in it, or "none"
    entered,    \* lock: task -> number of acquire() calls of __aenter__ that succeeded
    failed,     \* lock: task -> number of acquire() calls of __aenter__ that failed
    released,   \* lock: task -> number of release() calls of __aexit__
    forced,     \* lock: task -> number of those release() calls made with force
    bodies,     \* lock: task -> number of scope bodies started
    edeco,      \* executor: the object the decorated name is bound to
    efunc,      \* executor: the function given to the decorator
    eexec,      \* executor: the executor given to the decorator
    eloop,      \* executor: whether an event loop is running
    ecalls,     \* executor: the calls made on edeco, with their outcome
    eawaits,    \* executor: the outcomes of awaiting edeco itself
    esubmitted, \* executor: what was handed to loop.run_in_executor
    epc,        \* executor: "start", "factory" or "decorated"
    nname,      \* safe name: the argument
    nout,       \* safe name: the value returned for it
    npc         \* safe name: "input", "named" or "renamed"

rwVars == <<dirents, inodes, pc, arg, tmpname, fopen, buf, written, drawn,
           err, removed>>
ulVars == <<tree, upc, upath, upre, ucalls>>
itVars == <<content, pos, rlog, yielded, ipc>>
scVars == <<sscopes, sexc, sclose, sexit, sthrown, scaught>>
lkVars == <<token, counter, scopes, lexc, entered, failed, released, forced,
           bodies>>
exVars == <<edeco, efunc, eexec, eloop, ecalls, eawaits, esubmitted, epc>>
nmVars == <<nname, nout, npc>>
vars == <<dirents, inodes, pc, arg, tmpname, fopen, buf, written, drawn,
          err, removed,
          tree, upc, upath, upre, ucalls,
          content, pos, rlog, yielded, ipc,
          sscopes, sexc, sclose, sexit, sthrown, scaught,
          token, counter, scopes, lexc, entered, failed, released, forced,
          bodies,
          edeco, efunc, eexec, eloop, ecalls, eawaits, esubmitted, epc,
          nname, nout, npc>>

----------------------------------------------------------------------------
(* Bounds *)

\* The largest number of chunks a caller writes inside one rewrite scope.
MaxWrites == 2

\* The largest length of a stream's content, in bytes.
MaxContent == 5

\* The largest number of unlink_parent_dir calls in one run.
MaxCalls == 3

\* The largest number of 'async with' scopes over streams entered in one run.
MaxScopes == 3

\* The largest number of 'async with lock' entries one task attempts.
MaxEntries == 2

\* The largest number of calls, and of awaits, of a decorated name in one run.
MaxExecCalls == 2

\* The largest length of a name given to bandersnatch_safe_name.
MaxNameLen == 4

----------------------------------------------------------------------------
(* Sequences *)

Range(s) == {s[i] : i \in 1..Len(s)}

Last(s) == s[Len(s)]

Front(s) == SubSeq(s, 1, Len(s) - 1)

\* The function f without the key k.
Without(f, k) == [x \in DOMAIN f \ {k} |-> f[x]]

----------------------------------------------------------------------------
(* Path strings: posixpath and pathlib, as rewrite uses them *)

\* str.rfind('/') + 1: the index of the last slash, 0 when there is none.
LastSlash(p) ==
    LET S == {i \in 1..Len(p) : p[i] = "/"}
    IN  IF S = {} THEN 0 ELSE CHOOSE i \in S : \A j \in S : j <= i

AllSlash(s) == \A i \in 1..Len(s) : s[i] = "/"

\* str.rstrip('/')
RECURSIVE RStripSlash(_)
RStripSlash(s) ==
    IF s # <<>> /\ Last(s) = "/" THEN RStripSlash(Front(s)) ELSE s

\* posixpath.split: (head, tail), the head without its trailing slashes
\* unless it is made of slashes only.
PosixSplit(p) ==
    LET i == LastSlash(p)
        head == SubSeq(p, 1, i)
        tail == SubSeq(p, i + 1, Len(p))
    IN  << IF head # <<>> /\ ~AllSlash(head) THEN RStripSlash(head) ELSE head,
           tail >>

\* os.path.dirname
Dirname(p) == PosixSplit(p)[1]

\* os.path.basename
Basename(p) == PosixSplit(p)[2]

\* os.path.join(a, b) for a relative b.
OsPathJoin(a, b) ==
    IF a = <<>> THEN b
    ELSE IF Last(a) = "/" THEN a \o b
    ELSE a \o <<"/">> \o b

\* str.split('/')
RECURSIVE SplitSlash(_)
SplitSlash(p) ==
    IF "/" \notin Range(p) THEN <<p>>
    ELSE LET i == CHOOSE k \in 1..Len(p) :
                    p[k] = "/" /\ \A j \in 1..(k - 1) : p[j] # "/"
         IN  <<SubSeq(p, 1, i - 1)>> \o SplitSlash(SubSeq(p, i + 1, Len(p)))

IsNamePart(c) == c # <<>> /\ c # <<".">>

\* pathlib.Path(s) for a relative s: the parts, without empty and "." parts.
PathOf(s) == SelectSeq(SplitSlash(s), IsNamePart)

\* "/".join(parts)
RECURSIVE JoinSlash(_)
JoinSlash(parts) ==
    IF parts = <<>> THEN <<>>
    ELSE IF Len(parts) = 1 THEN parts[1]
    ELSE parts[1] \o <<"/">> \o JoinSlash(Tail(parts))

\* str(path): "." for the path without parts.
PathStr(parts) == IF parts = <<>> THEN <<".">> ELSE JoinSlash(parts)

\* path.name: the last part, "" when there is none.
PathName(parts) == IF parts = <<>> THEN <<>> ELSE Last(parts)

\* path.parent: the path without its last part.
PathParent(parts) == IF parts = <<>> THEN <<>> ELSE Front(parts)

\* The kernel's path resolution from the working directory: the location a
\* path string names, as the sequence of directory entries walked.
RECURSIVE Walk(_, _)
Walk(loc, comps) ==
    IF comps = <<>> THEN loc
    ELSE IF Head(comps) = <<>> \/ Head(comps) = <<".">>
         THEN Walk(loc, Tail(comps))
         ELSE Walk(Append(loc, Head(comps)), Tail(comps))

ResolveWalk(p) == Walk(<<>>, SplitSlash(p))

----------------------------------------------------------------------------
(* rewrite: the callers, their arguments and the filesystem *)

Writers == {"w1", "w2"}

\* The path strings given to rewrite: a bare file name, a file in a
\* directory, and a file named through the working directory.
StrTargets == { <<"t">>, <<"d", "/", "t">>, <<".", "/", "t">> }

\* filepath: Union[str, Path]
Inputs == { [kind |-> "str", val |-> s] : s \in StrTargets }
            \cup { [kind |-> "path", val |-> PathOf(s)] : s \in StrTargets }

NoArg == [kind |-> "none", val |-> <<>>]

\* The random parts tempfile's name sequence may give: each stands for a
\* string of 8 random characters.
Suffixes == {"r1", "r2", "r3"}

\* mkstemp creates the file with mode 0600.
TempMode == 6 * 64

\* The mode of the files present before any rewrite: 0664.
OldMode == 6 * 64 + 6 * 8 + 4

\* os.chmod(filepath_tmp, 0o100644)
CommitMode == 33188

\* chmod(2) keeps the permission bits of its argument (mode & 07777).
ChmodBits(m) == m % 4096

\* The content of the files present before any rewrite.
OldContent == << <<"old", 1>> >>

\* The files that may exist before any rewrite, with their inodes: the two
\* targets (the first may be absent), and a temporary file a previous run
\* left behind.
OldFiles ==
    ( << <<"t">> >> :> "i0" )
    @@ ( << <<"d">>, <<"t">> >> :> "i1" )
    @@ ( << <<".", "t", ".", "r1">> >> :> "i2" )

OldInodes == {"i0", "i1", "i2"}

\* if isinstance(filepath, str): os.path.dirname(filepath)
\* else: str(filepath.parent)
BaseDir(a) ==
    IF a.kind = "str" THEN Dirname(a.val) ELSE PathStr(PathParent(a.val))

\* if isinstance(filepath, str): os.path.basename(filepath)
\* else: filepath.name
FileName(a) ==
    IF a.kind = "str" THEN Basename(a.val) ELSE PathName(a.val)

\* os.fspath(filepath), as shutil.move takes its destination.
FsPath(a) == IF a.kind = "str" THEN a.val ELSE PathStr(a.val)

\* A prefix without the leading dot.
TmpPrefixNoDot(filename) == filename \o <<".">>

\* prefix=f".{filename}."
TmpPrefix(filename) == <<".">> \o filename \o <<".">>

\* The name NamedTemporaryFile tries with the random part r:
\* os.path.join(dir, prefix + r).
TmpName(base_dir, filename, r) ==
    OsPathJoin(base_dir, TmpPrefix(filename) \o <<r>>)

\* Every path string a rewrite call handles: its argument and the names its
\* temporary file may have.
PathStrings ==
    { FsPath(a) : a \in Inputs \cup {NoArg} }
    \cup { TmpName(BaseDir(a), FileName(a), r) :
              a \in Inputs \cup {NoArg}, r \in Suffixes }
    \cup { <<>> }

\* The resolution of these path strings, tabulated.
ResolveTable == [p \in PathStrings |-> ResolveWalk(p)]

Resolve(p) == ResolveTable[p]

\* NamedTemporaryFile(prefix=..., delete=False, dir=base_dir): the names it
\* may create.  The random part is any one not used before in the run (a
\* string of 8 random characters is taken not to come twice) whose name does
\* not exist: the file is created with O_EXCL, and on an existing name the
\* next random part is tried.
MkTemp(base_dir, filename) ==
    { n \in { TmpName(base_dir, filename, r) : r \in Suffixes \ drawn } :
        Resolve(n) \notin DOMAIN dirents }

\* A stream opened on the target itself when it exists.
WriteInoOfTarget(w) ==
    IF Resolve(FsPath(arg[w])) \in DOMAIN dirents
    THEN dirents[Resolve(FsPath(arg[w]))]
    ELSE w

\* The inode the stream f of writer w writes to: the temporary file's own.
WriteIno(w) == w

\* os.path.exists(filepath_tmp)
TmpExists(w) == Resolve(tmpname[w]) \in DOMAIN dirents

\* The location the final move of writer w replaces.
Target(w) == Resolve(FsPath(arg[w]))

\* An error of os.chmod that is swallowed: rewrite goes on to the move.
AfterChmodErrorSwallowed == "move"

\* What rewrite does when os.chmod raises: nothing handles the error, which
\* leaves the generator.
AfterChmodError == "raised"

\* A commit in a finally clause: the caller's error does not stop it.
AfterBodyErrorCommits == "closed"

\* What a caller's error does at the yield: it leaves the with block (which
\* closes f) and the generator; the code after the with block is not run.
AfterBodyError == "raised"

\* No check that filepath_tmp exists: rewrite goes on to the chmod.
AfterMissingTmpGoesOn == "chmod"

\* What rewrite does when filepath_tmp does not exist any more: return.
AfterMissingTmp == "skipped"

\* A rename that does not replace an existing destination.
RenamedNoReplace(d, src, dst) ==
    IF dst \in DOMAIN d THEN d ELSE Without((dst :> d[src]) @@ d, src)

\* A copy in place of a move: the source keeps its name.
RenamedKeepsSource(d, src, dst) == (dst :> d[src]) @@ d

\* The directory entries after os.rename(src, dst): dst names src's inode,
\* src is gone, in one step.
Renamed(d, src, dst) == Without((dst :> d[src]) @@ d, src)

\* The inodes after the buffered chunks of writer w reached its file.
Flushed(w) ==
    [inodes EXCEPT ![WriteIno(w)].content = @ \o buf[w]]

----------------------------------------------------------------------------
(* rewrite: the steps of a call and of the caller's body *)

InitRewrite ==
    /\ \E present \in SUBSET {"i0"} :
          LET keep == {l \in DOMAIN OldFiles :
                          OldFiles[l] \in present \cup {"i1", "i2"}}
          IN  /\ dirents = [l \in keep |-> OldFiles[l]]
              /\ inodes = [i \in {OldFiles[l] : l \in keep} |->
                              [content |-> OldContent, mode |-> OldMode]]
    /\ pc = [w \in Writers |-> "idle"]
    /\ arg = [w \in Writers |-> NoArg]
    /\ tmpname = [w \in Writers |-> <<>>]
    /\ fopen = [w \in Writers |-> FALSE]
    /\ buf = [w \in Writers |-> <<>>]
    /\ written = [w \in Writers |-> <<>>]
    /\ drawn = {}
    /\ err = [w \in Writers |-> "none"]
    /\ removed = [w \in Writers |-> FALSE]

\* rewrite(filepath) up to the yield: the temporary file is created empty in
\* base_dir and handed to the caller, open.
Enter(w) ==
    /\ UNCHANGED <<ulVars, itVars, scVars, lkVars, exVars, nmVars>>
    /\ pc[w] = "idle"
    /\ \E a \in Inputs :
          \E name \in MkTemp(BaseDir(a), FileName(a)) :
              /\ arg' = [arg EXCEPT ![w] = a]
              /\ tmpname' = [tmpname EXCEPT ![w] = name]
              /\ dirents' = (Resolve(name) :> w) @@ dirents
              /\ drawn' = drawn \cup {Last(name)}
    /\ inodes' = (w :> [content |-> <<>>, mode |-> TempMode]) @@ inodes
    /\ fopen' = [fopen EXCEPT ![w] = TRUE]
    /\ pc' = [pc EXCEPT ![w] = "body"]
    /\ UNCHANGED <<buf, written, err, removed>>

\* The caller's f.write(chunk): the chunk is buffered.
Write(w) ==
    /\ UNCHANGED <<ulVars, itVars, scVars, lkVars, exVars, nmVars>>
    /\ pc[w] = "body"
    /\ Len(written[w]) < MaxWrites
    /\ LET chunk == <<w, Len(written[w]) + 1>>
       IN  /\ buf' = [buf EXCEPT ![w] = Append(@, chunk)]
           /\ written' = [written EXCEPT ![w] = Append(@, chunk)]
    /\ UNCHANGED <<dirents, inodes, pc, arg, tmpname, fopen, drawn, err, removed>>

\* The buffer of f reaches the file inside the scope (f.flush(), or the
\* buffer filling up).
Flush(w) ==
    /\ UNCHANGED <<ulVars, itVars, scVars, lkVars, exVars, nmVars>>
    /\ pc[w] = "body"
    /\ buf[w] # <<>>
    /\ inodes' = Flushed(w)
    /\ buf' = [buf EXCEPT ![w] = <<>>]
    /\ UNCHANGED <<dirents, pc, arg, tmpname, fopen, written, drawn, err, removed>>

\* The caller removes the temporary file inside the scope (os.unlink(f.name)).
RemoveTmp(w) ==
    /\ UNCHANGED <<ulVars, itVars, scVars, lkVars, exVars, nmVars>>
    /\ pc[w] = "body"
    /\ TmpExists(w)
    /\ dirents' = Without(dirents, Resolve(tmpname[w]))
    /\ removed' = [removed EXCEPT ![w] = TRUE]
    /\ UNCHANGED <<inodes, pc, arg, tmpname, fopen, buf, written, drawn, err>>

\* A commit inside the with block: f is neither flushed nor closed first.
ExitNormalKeepsOpen(w) ==
    /\ UNCHANGED <<ulVars, itVars, scVars, lkVars, exVars, nmVars>>
    /\ pc[w] = "body"
    /\ pc' = [pc EXCEPT ![w] = "closed"]
    /\ UNCHANGED <<dirents, inodes, arg, tmpname, fopen, buf, written, drawn,
                   err, removed>>

\* The caller's body ends normally: the generator resumes after the yield and
\* leaves the with block, which closes f (flushing it).
ExitNormal(w) ==
    /\ UNCHANGED <<ulVars, itVars, scVars, lkVars, exVars, nmVars>>
    /\ pc[w] = "body"
    /\ inodes' = Flushed(w)
    /\ buf' = [buf EXCEPT ![w] = <<>>]
    /\ fopen' = [fopen EXCEPT ![w] = FALSE]
    /\ pc' = [pc EXCEPT ![w] = "closed"]
    /\ UNCHANGED <<dirents, arg, tmpname, written, drawn, err, removed>>

\* The caller's body raises or is cancelled: the error is thrown into the
\* generator at the yield; the with block closes f and the error goes on.
ExitRaise(w) ==
    /\ UNCHANGED <<ulVars, itVars, scVars, lkVars, exVars, nmVars>>
    /\ pc[w] = "body"
    /\ inodes' = Flushed(w)
    /\ buf' = [buf EXCEPT ![w] = <<>>]
    /\ fopen' = [fopen EXCEPT ![w] = FALSE]
    /\ err' = [err EXCEPT ![w] = "body"]
    /\ pc' = [pc EXCEPT ![w] = AfterBodyError]
    /\ UNCHANGED <<dirents, arg, tmpname, written, drawn, removed>>

\* if not os.path.exists(filepath_tmp): return
CheckExists(w) ==
    /\ UNCHANGED <<ulVars, itVars, scVars, lkVars, exVars, nmVars>>
    /\ pc[w] = "closed"
    /\ pc' = [pc EXCEPT ![w] = IF TmpExists(w) THEN "chmod" ELSE AfterMissingTmp]
    /\ UNCHANGED <<dirents, inodes, arg, tmpname, fopen, buf, written, drawn, err,
                   removed>>

\* A rewrite without the chmod: the staged file keeps its creation mode.
ChmodOmitted(w) ==
    /\ UNCHANGED <<ulVars, itVars, scVars, lkVars, exVars, nmVars>>
    /\ pc[w] = "chmod"
    /\ pc' = [pc EXCEPT ![w] = "move"]
    /\ UNCHANGED <<dirents, inodes, arg, tmpname, fopen, buf, written, drawn,
                   err, removed>>

\* os.chmod(filepath_tmp, 0o100644): it sets the mode of the file the name
\* leads to; it fails when the name does not exist, or when the filesystem
\* refuses the change.
Chmod(w) ==
    /\ UNCHANGED <<ulVars, itVars, scVars, lkVars, exVars, nmVars>>
    /\ pc[w] = "chmod"
    /\ \E ok \in BOOLEAN :
          IF ok /\ TmpExists(w)
          THEN /\ inodes' = [inodes EXCEPT
                     ![dirents[Resolve(tmpname[w])]].mode = ChmodBits(CommitMode)]
               /\ pc' = [pc EXCEPT ![w] = "move"]
               /\ UNCHANGED err
          ELSE /\ err' = [err EXCEPT ![w] = "chmod"]
               /\ pc' = [pc EXCEPT ![w] = AfterChmodError]
               /\ UNCHANGED inodes
    /\ UNCHANGED <<dirents, arg, tmpname, fopen, buf, written, drawn, removed>>

\* shutil.move(filepath_tmp, filepath): source and destination are in one
\* directory, so it is os.rename; it fails when the source does not exist.
Move(w) ==
    /\ UNCHANGED <<ulVars, itVars, scVars, lkVars, exVars, nmVars>>
    /\ pc[w] = "move"
    /\ IF TmpExists(w)
       THEN /\ dirents' = Renamed(dirents, Resolve(tmpname[w]), Target(w))
            /\ pc' = [pc EXCEPT ![w] = "committed"]
            /\ UNCHANGED err
       ELSE /\ err' = [err EXCEPT ![w] = "move"]
            /\ pc' = [pc EXCEPT ![w] = "raised"]
            /\ UNCHANGED dirents
    /\ UNCHANGED <<inodes, arg, tmpname, fopen, buf, written, drawn, removed>>

NextRewrite ==
    \E w \in Writers :
        \/ Enter(w)
        \/ Write(w)
        \/ Flush(w)
        \/ RemoveTmp(w)
        \/ ExitNormal(w)
        \/ ExitRaise(w)
        \/ CheckExists(w)
        \/ Chmod(w)
        \/ Move(w)

----------------------------------------------------------------------------
(* unlink_parent_dir: a directory tree and successive calls *)

\* The directories of the tree before any call: p, q and p/s.
TreeDirs == { <<"p">>, <<"q">>, <<"p", "s">> }

\* The files that may be in the tree before any call.
TreeFiles == { <<"p", "a">>, <<"p", "b">>, <<"q", "a">>, <<"p", "s", "a">> }

\* The paths given to unlink_parent_dir: the files, present or not, and a
\* directory.  Each has a named parent directory.
UnlinkPaths == TreeFiles \cup { <<"p", "s">> }

\* The entries of directory d in tree t.
Children(t, d) == {l \in DOMAIN t : l # <<>> /\ Front(l) = d}

\* path.unlink() succeeds on a file; on a missing path or a directory it
\* raises (FileNotFoundError, IsADirectoryError).
UnlinkOk(t, l) == l \in DOMAIN t /\ t[l] = "file"

\* A removal that takes the directory with everything in it.
RmdirOkNonEmpty(t, d) == d # <<>> /\ d \in DOMAIN t /\ t[d] = "dir"

\* parent_path.rmdir() succeeds on an existing, empty directory other than
\* the working directory; otherwise it raises an OSError.
RmdirOk(t, d) ==
    /\ d # <<>>
    /\ d \in DOMAIN t
    /\ t[d] = "dir"
    /\ Children(t, d) = {}

\* except OSError: the failure to remove the parent is logged, and the call
\* returns.
AfterRmdirError == "returned"

InitUnlink ==
    /\ \E files \in SUBSET TreeFiles :
          tree = [l \in TreeDirs \cup files |->
                     IF l \in TreeDirs THEN "dir" ELSE "file"]
    /\ upc = "idle"
    /\ upath = <<>>
    /\ upre = <<>>
    /\ ucalls = 0

\* unlink_parent_dir(path) is called.
Call(path) ==
    /\ upc \in {"idle", "returned", "raised"}
    /\ ucalls < MaxCalls
    /\ upath' = path
    /\ upre' = tree
    /\ upc' = "called"
    /\ ucalls' = ucalls + 1
    /\ UNCHANGED tree
    /\ UNCHANGED <<rwVars, itVars, scVars, lkVars, exVars, nmVars>>

\* An unlink that tolerates a missing file (missing_ok): the call goes on.
AfterUnlinkErrorIgnored == "unlinked"

\* path.unlink() is outside the try block: its error leaves the function.
AfterUnlinkError == "raised"

\* path.unlink(): an error leaves the function, before the parent is touched.
Unlink ==
    /\ upc = "called"
    /\ IF UnlinkOk(tree, upath)
       THEN /\ tree' = Without(tree, upath)
            /\ upc' = "unlinked"
       ELSE /\ upc' = AfterUnlinkError
            /\ UNCHANGED tree
    /\ UNCHANGED <<upath, upre, ucalls>>
    /\ UNCHANGED <<rwVars, itVars, scVars, lkVars, exVars, nmVars>>

\* parent_path = path.parent; try: parent_path.rmdir() except OSError: ...
Rmdir ==
    /\ upc = "unlinked"
    /\ IF RmdirOk(tree, Front(upath))
       THEN /\ tree' = Without(tree, Front(upath))
            /\ upc' = "returned"
       ELSE /\ upc' = AfterRmdirError
            /\ UNCHANGED tree
    /\ UNCHANGED <<upath, upre, ucalls>>
    /\ UNCHANGED <<rwVars, itVars, scVars, lkVars, exVars, nmVars>>

NextUnlink ==
    \/ \E path \in UnlinkPaths : Call(path)
    \/ Unlink
    \/ Rmdir

----------------------------------------------------------------------------
(* AIOBase: asynchronous iteration over a stream *)

Bytes == {"a", "b", "c", "\n"}

\* The byte strings of length n.
BytesOfLen(n) == [1..n -> Bytes]

\* readline(): the bytes from the cursor up to and including the next line
\* feed, or up to the end of the stream; empty at the end of the stream.
ReadLine(c, at) ==
    LET rest == SubSeq(c, at + 1, Len(c))
        nl == {k \in 1..Len(rest) : rest[k] = "\n"}
    IN  IF nl = {} THEN rest
        ELSE SubSeq(rest, 1, CHOOSE k \in nl : \A j \in nl : k <= j)

\* A test that also takes a blank line for the end of the stream.
IsEndOrBlank(line) == line = <<>> \/ line = <<"\n">>

\* if not line: the empty result ends the iteration.
IsEnd(line) == line = <<>>

InitIter ==
    /\ \E n \in 0..MaxContent :
          \E c \in BytesOfLen(n) :
              /\ content = c
              /\ pos \in 0..n
    /\ rlog = <<>>
    /\ yielded = <<>>
    /\ ipc = "iter"

\* __anext__, called by 'async for' until it raises StopAsyncIteration:
\* line = await self.readline(); if not line: raise StopAsyncIteration;
\* return line
Anext ==
    /\ ipc = "iter"
    /\ LET line == ReadLine(content, pos)
       IN  /\ pos' = pos + Len(line)
           /\ rlog' = Append(rlog, line)
           /\ IF IsEnd(line)
              THEN /\ ipc' = "stopped"
                   /\ UNCHANGED yielded
              ELSE /\ yielded' = Append(yielded, line)
                   /\ UNCHANGED ipc
    /\ UNCHANGED content
    /\ UNCHANGED <<rwVars, ulVars, scVars, lkVars, exVars, nmVars>>

NextIter == Anext

----------------------------------------------------------------------------
(* abc.io.AIOBase as an 'async with' scope *)

Streams == {"s1", "s2"}

\* What a body can raise: an error of its own, or the task's cancellation.
BodyErrors == {"Error", "Cancelled"}

\* AIOBase.__aenter__ returns self: the scope is over the stream itself.
StreamAEnter(s) == s

\* AIOBase.__aexit__ returns None after close(): the exception the scope was
\* left with, if any, goes on to the caller.
StreamAExitResult(exc) == exc

\* Scopes of the run that were entered, open or left.
StreamEntries ==
    Len(sscopes) + sexit["s1"] + sexit["s2"]

InitScope ==
    /\ sscopes = <<>>
    /\ sexc = "none"
    /\ sclose = [s \in Streams |-> 0]
    /\ sexit = [s \in Streams |-> 0]
    /\ sthrown = 0
    /\ scaught = 0

\* async with s: __aenter__ runs and the body starts.
StreamEnter(s) ==
    /\ sexc = "none"
    /\ StreamEntries < MaxScopes
    /\ sscopes' = Append(sscopes, StreamAEnter(s))
    /\ UNCHANGED <<sexc, sclose, sexit, sthrown, scaught>>
    /\ UNCHANGED <<rwVars, ulVars, itVars, lkVars, exVars, nmVars>>

\* The body of the innermost scope raises, or is cancelled.
StreamBodyRaise(kind) ==
    /\ sscopes # <<>>
    /\ sexc = "none"
    /\ sexc' = kind
    /\ sthrown' = sthrown + 1
    /\ UNCHANGED <<sscopes, sclose, sexit, scaught>>
    /\ UNCHANGED <<rwVars, ulVars, itVars, lkVars, exVars, nmVars>>

\* An __aexit__ that closes the stream only when the body ended normally.
StreamExitClosesOnSuccess ==
    /\ sscopes # <<>>
    /\ LET s == Last(sscopes) IN
        /\ sclose' = [sclose EXCEPT ![s] = IF sexc = "none" THEN @ + 1 ELSE @]
        /\ sexit' = [sexit EXCEPT ![s] = @ + 1]
    /\ sscopes' = Front(sscopes)
    /\ sexc' = StreamAExitResult(sexc)
    /\ UNCHANGED <<sthrown, scaught>>
    /\ UNCHANGED <<rwVars, ulVars, itVars, lkVars, exVars, nmVars>>

\* The innermost scope is left, normally or with the exception in flight:
\* __aexit__ awaits self.close() and returns None.
StreamExit ==
    /\ sscopes # <<>>
    /\ LET s == Last(sscopes) IN
        /\ sclose' = [sclose EXCEPT ![s] = @ + 1]
        /\ sexit' = [sexit EXCEPT ![s] = @ + 1]
    /\ sscopes' = Front(sscopes)
    /\ sexc' = StreamAExitResult(sexc)
    /\ UNCHANGED <<sthrown, scaught>>
    /\ UNCHANGED <<rwVars, ulVars, itVars, lkVars, exVars, nmVars>>

\* The exception has left every scope: the caller of the outermost one gets it.
StreamCatch ==
    /\ sscopes = <<>>
    /\ sexc # "none"
    /\ sexc' = "none"
    /\ scaught' = scaught + 1
    /\ UNCHANGED <<sscopes, sclose, sexit, sthrown>>
    /\ UNCHANGED <<rwVars, ulVars, itVars, lkVars, exVars, nmVars>>

NextScope ==
    \/ \E s \in Streams : StreamEnter(s)
    \/ \E kind \in BodyErrors : StreamBodyRaise(kind)
    \/ StreamExit
    \/ StreamCatch

----------------------------------------------------------------------------
(* abc.filelock.BaseFileLock as an 'async with' scope *)

\* Two lock objects for the same path, each an owner of its own, used by two
\* tasks of one event loop.
Locks == {"A", "B"}
Tasks == {"t1", "t2"}

\* What acquire() can fail with while the lock is held elsewhere.
AcquireErrors == {"Timeout", "Cancelled"}

\* acquire(): succeeds when the token is free or held by this same owner.
CanAcquire(l) == token \in {l, "none"}

\* acquire(), succeeding: the owner holds the token, its counter goes up.
Acquire(l) ==
    [token |-> l, counter |-> [counter EXCEPT ![l] = @ + 1]]

\* A release that gives the token back at once, whatever the counter says.
ReleaseFreesAtOnce(l, force) ==
    IF force
    THEN [token |-> "none", counter |-> [counter EXCEPT ![l] = 0]]
    ELSE IF counter[l] = 0
    THEN [token |-> token, counter |-> counter]
    ELSE [token |-> "none", counter |-> [counter EXCEPT ![l] = @ - 1]]

\* release(force): the counter goes down and the token is given back when it
\* reaches zero; with force the token is given back and the counter reset;
\* without a prior acquisition it does nothing.
Release(l, force) ==
    IF force
    THEN [token |-> "none", counter |-> [counter EXCEPT ![l] = 0]]
    ELSE IF counter[l] = 0
    THEN [token |-> token, counter |-> counter]
    ELSE [token |-> IF counter[l] = 1 THEN "none" ELSE token,
          counter |-> [counter EXCEPT ![l] = @ - 1]]

\* __aexit__ awaits self.release(): force keeps its default.
ExitForce == FALSE

\* Scope entries task t has attempted.
Attempts(t) == entered[t] + failed[t]

InitLock ==
    /\ token = "none"
    /\ counter = [l \in Locks |-> 0]
    /\ scopes = [t \in Tasks |-> <<>>]
    /\ lexc = [t \in Tasks |-> "none"]
    /\ entered = [t \in Tasks |-> 0]
    /\ failed = [t \in Tasks |-> 0]
    /\ released = [t \in Tasks |-> 0]
    /\ forced = [t \in Tasks |-> 0]
    /\ bodies = [t \in Tasks |-> 0]

\* async with l, in task t: __aenter__ awaits self.acquire(), which succeeds,
\* and the body starts.
LockEnter(t, l) ==
    /\ lexc[t] = "none"
    /\ Attempts(t) < MaxEntries
    /\ CanAcquire(l)
    /\ token' = Acquire(l).token
    /\ counter' = Acquire(l).counter
    /\ scopes' = [scopes EXCEPT ![t] = Append(@, l)]
    /\ entered' = [entered EXCEPT ![t] = @ + 1]
    /\ bodies' = [bodies EXCEPT ![t] = @ + 1]
    /\ UNCHANGED <<lexc, failed, released, forced>>
    /\ UNCHANGED <<rwVars, ulVars, itVars, scVars, exVars, nmVars>>

\* An __aenter__ that undoes a failed acquire() with a release().
LockEnterFailReleases(t, l, kind) ==
    /\ lexc[t] = "none"
    /\ Attempts(t) < MaxEntries
    /\ ~CanAcquire(l)
    /\ failed' = [failed EXCEPT ![t] = @ + 1]
    /\ lexc' = [lexc EXCEPT ![t] = kind]
    /\ token' = Release(l, ExitForce).token
    /\ counter' = Release(l, ExitForce).counter
    /\ released' = [released EXCEPT ![t] = @ + 1]
    /\ UNCHANGED <<scopes, entered, forced, bodies>>
    /\ UNCHANGED <<rwVars, ulVars, itVars, scVars, exVars, nmVars>>

\* async with l, in task t: the acquire() of __aenter__ fails; the exception
\* leaves __aenter__, so the body is not run and __aexit__ is not called.
LockEnterFail(t, l, kind) ==
    /\ lexc[t] = "none"
    /\ Attempts(t) < MaxEntries
    /\ ~CanAcquire(l)
    /\ failed' = [failed EXCEPT ![t] = @ + 1]
    /\ lexc' = [lexc EXCEPT ![t] = kind]
    /\ UNCHANGED <<token, counter, scopes, entered, released, forced, bodies>>
    /\ UNCHANGED <<rwVars, ulVars, itVars, scVars, exVars, nmVars>>

\* The body of the innermost scope of task t raises, or is cancelled.
LockBodyRaise(t, kind) ==
    /\ scopes[t] # <<>>
    /\ lexc[t] = "none"
    /\ lexc' = [lexc EXCEPT ![t] = kind]
    /\ UNCHANGED <<token, counter, scopes, entered, failed, released, forced,
                   bodies>>
    /\ UNCHANGED <<rwVars, ulVars, itVars, scVars, exVars, nmVars>>

\* An __aexit__ that releases only when the body ended normally.
LockExitReleasesOnSuccess(t) ==
    /\ scopes[t] # <<>>
    /\ LET l == Last(scopes[t]) IN
        IF lexc[t] = "none"
        THEN /\ token' = Release(l, ExitForce).token
             /\ counter' = Release(l, ExitForce).counter
             /\ released' = [released EXCEPT ![t] = @ + 1]
        ELSE UNCHANGED <<token, counter, released>>
    /\ scopes' = [scopes EXCEPT ![t] = Front(@)]
    /\ UNCHANGED <<lexc, entered, failed, forced, bodies>>
    /\ UNCHANGED <<rwVars, ulVars, itVars, scVars, exVars, nmVars>>

\* The innermost scope of task t is left, normally or with the exception in
\* flight: __aexit__ awaits self.release() and returns None.
LockExit(t) ==
    /\ scopes[t] # <<>>
    /\ LET l == Last(scopes[t]) IN
        /\ token' = Release(l, ExitForce).token
        /\ counter' = Release(l, ExitForce).counter
    /\ released' = [released EXCEPT ![t] = @ + 1]
    /\ forced' = [forced EXCEPT ![t] = IF ExitForce THEN @ + 1 ELSE @]
    /\ scopes' = [scopes EXCEPT ![t] = Front(@)]
    /\ UNCHANGED <<lexc, entered, failed, bodies>>
    /\ UNCHANGED <<rwVars, ulVars, itVars, scVars, exVars, nmVars>>

\* The exception has left every scope of task t: the task's caller gets it.
LockCatch(t) ==
    /\ scopes[t] = <<>>
    /\ lexc[t] # "none"
    /\ lexc' = [lexc EXCEPT ![t] = "none"]
    /\ UNCHANGED <<token, counter, scopes, entered, failed, released, forced,
                   bodies>>
    /\ UNCHANGED <<rwVars, ulVars, itVars, scVars, exVars, nmVars>>

NextLock ==
    \/ \E t \in Tasks, l \in Locks : LockEnter(t, l)
    \/ \E t \in Tasks, l \in Locks, kind \in AcquireErrors :
           LockEnterFail(t, l, kind)
    \/ \E t \in Tasks, kind \in BodyErrors : LockBodyRaise(t, kind)
    \/ \E t \in Tasks : LockExit(t)
    \/ \E t \in Tasks : LockCatch(t)

----------------------------------------------------------------------------
(* utils.run_in_executor *)

\* Synchronous functions a program decorates.
Funcs == {"f", "g"}

\* Executor arguments: None (the loop's default executor) or a pool.
Executors == {"None", "pool"}

\* Argument lists of a call: positional values, and keyword pairs.
ArgLists == {<<>>, <<1>>, <<1, 2>>}
KwLists == {<<>>, << <<"k", 7>> >>}

\* Python values of the model: functions, partial objects, coroutine objects
\* and the wrapper closure, all with the same fields.
Obj(kind, func, executor, args, kw) ==
    [kind |-> kind, func |-> func, executor |-> executor, args |-> args,
     kw |-> kw]

NoObj == Obj("none", "none", "None", <<>>, <<>>)

\* callable(x): functions are, executors and None are not.
Callable(x) == x \in Funcs

\* functools.partial(run_in_executor, executor=func_or_executor)
PartialOf(executor) == Obj("partial", "run_in_executor", executor, <<>>, <<>>)

\* The closure 'wrapper' defined for func and executor.
WrapperOf(func, executor) == Obj("function", func, executor, <<>>, <<>>)

\* Calling the async function wrapper makes a coroutine object that holds the
\* arguments; nothing of its body runs before it is awaited.
WrapperCall(wrapper, args, kw) ==
    Obj("coroutine", wrapper.func, wrapper.executor, args, kw)

\* run_in_executor(func_or_executor, executor): the value it returns.  The
\* last line returns wrapper(), the coroutine object of a call without
\* arguments, and not wrapper.
RunInExecutor(func_or_executor, executor) ==
    IF ~Callable(func_or_executor)
    THEN PartialOf(func_or_executor)
    ELSE WrapperCall(WrapperOf(func_or_executor, executor), <<>>, <<>>)

\* What f returns for the arguments it is run with.
FResult(func, args, kw) == <<func, args, kw>>

\* The outcome of an expression: a value, or the exception it raises.
Value(v) == [kind |-> "value", val |-> v]
Raises(e) == [kind |-> e, val |-> <<>>]

\* What the body of wrapper hands to loop.run_in_executor: the executor and
\* functools.partial(func, *args, **kwargs).
Submission(coro) ==
    [executor |-> coro.executor, func |-> coro.func, args |-> coro.args,
     kw |-> coro.kw]

InitExec ==
    /\ edeco = NoObj
    /\ efunc = "none"
    /\ eexec = "None"
    /\ eloop \in BOOLEAN
    /\ ecalls = <<>>
    /\ eawaits = <<>>
    /\ esubmitted = <<>>
    /\ epc = "start"

\* @run_in_executor above def func: the name is bound to run_in_executor(func).
Decorate(func) ==
    /\ epc = "start"
    /\ edeco' = RunInExecutor(func, "None")
    /\ efunc' = func
    /\ epc' = "decorated"
    /\ UNCHANGED <<eexec, eloop, ecalls, eawaits, esubmitted>>
    /\ UNCHANGED <<rwVars, ulVars, itVars, scVars, lkVars, nmVars>>

\* run_in_executor(executor): the decorator for that executor.
DecorateWith(executor) ==
    /\ epc = "start"
    /\ edeco' = RunInExecutor(executor, "None")
    /\ eexec' = executor
    /\ epc' = "factory"
    /\ UNCHANGED <<efunc, eloop, ecalls, eawaits, esubmitted>>
    /\ UNCHANGED <<rwVars, ulVars, itVars, scVars, lkVars, nmVars>>

\* @run_in_executor(executor) above def func: the partial object is called
\* with func, that is run_in_executor(func, executor=executor).
ApplyDecorator(func) ==
    /\ epc = "factory"
    /\ edeco' = RunInExecutor(func, edeco.executor)
    /\ efunc' = func
    /\ epc' = "decorated"
    /\ UNCHANGED <<eexec, eloop, ecalls, eawaits, esubmitted>>
    /\ UNCHANGED <<rwVars, ulVars, itVars, scVars, lkVars, nmVars>>

\* asyncio.run(...): an event loop starts running.
LoopStart ==
    /\ ~eloop
    /\ eloop' = TRUE
    /\ UNCHANGED <<edeco, efunc, eexec, ecalls, eawaits, esubmitted, epc>>
    /\ UNCHANGED <<rwVars, ulVars, itVars, scVars, lkVars, nmVars>>

\* await func(*args, **kw) inside the running loop, func being the decorated
\* name.  A coroutine object is not callable: the call raises TypeError.  A
\* function makes a coroutine whose body, awaited, submits the call and
\* returns its result.
CallDecorated(args, kw) ==
    /\ epc = "decorated"
    /\ eloop
    /\ Len(ecalls) < MaxExecCalls
    /\ IF edeco.kind = "function"
       THEN LET coro == WrapperCall(edeco, args, kw) IN
            /\ esubmitted' = Append(esubmitted, Submission(coro))
            /\ ecalls' = Append(ecalls,
                   [args |-> args, kw |-> kw,
                    outcome |-> Value(FResult(coro.func, coro.args, coro.kw))])
       ELSE /\ ecalls' = Append(ecalls,
                   [args |-> args, kw |-> kw, outcome |-> Raises("TypeError")])
            /\ UNCHANGED esubmitted
    /\ UNCHANGED <<edeco, efunc, eexec, eloop, eawaits, epc>>
    /\ UNCHANGED <<rwVars, ulVars, itVars, scVars, lkVars, nmVars>>

\* await func inside the running loop, func being the decorated name.  The
\* first await of the coroutine object runs the body of wrapper with the
\* arguments the coroutine holds; a coroutine cannot be awaited twice.
AwaitDecorated ==
    /\ epc = "decorated"
    /\ eloop
    /\ Len(eawaits) < MaxExecCalls
    /\ IF edeco.kind = "coroutine" /\ eawaits = <<>>
       THEN /\ esubmitted' = Append(esubmitted, Submission(edeco))
            /\ eawaits' = Append(eawaits,
                   Value(FResult(edeco.func, edeco.args, edeco.kw)))
       ELSE /\ eawaits' = Append(eawaits,
                   Raises(IF edeco.kind = "coroutine"
                          THEN "RuntimeError" ELSE "TypeError"))
            /\ UNCHANGED esubmitted
    /\ UNCHANGED <<edeco, efunc, eexec, eloop, ecalls, epc>>
    /\ UNCHANGED <<rwVars, ulVars, itVars, scVars, lkVars, nmVars>>

NextExec ==
    \/ \E func \in Funcs : Decorate(func)
    \/ \E executor \in Executors : DecorateWith(executor)
    \/ \E func \in Funcs : ApplyDecorator(func)
    \/ LoopStart
    \/ \E args \in ArgLists, kw \in KwLists : CallDecorated(args, kw)
    \/ AwaitDecorated

----------------------------------------------------------------------------
(* utils.bandersnatch_safe_name *)

UpperLetters ==
    <<"A", "B", "C", "D", "E", "F", "G", "H", "I", "J", "K", "L", "M",
      "N", "O", "P", "Q", "R", "S", "T", "U", "V", "W", "X", "Y", "Z">>

LowerLetters ==
    <<"a", "b", "c", "d", "e", "f", "g", "h", "i", "j", "k", "l", "m",
      "n", "o", "p", "q", "r", "s", "t", "u", "v", "w", "x", "y", "z">>

Digits == {"0", "1", "2", "3", "4", "5", "6", "7", "8", "9"}

\* The characters SAFE_NAME_REGEX does not match: A-Z, a-z, 0-9 and '.'.
SafeChar(c) ==
    c \in Range(UpperLetters) \cup Range(LowerLetters) \cup Digits \cup {"."}

\* The characters of the names that are tried.
NameChars == {"a", "B", "7", ".", "-", "_", " "}

RECURSIVE NamesOfLen(_)
NamesOfLen(n) ==
    IF n = 0 THEN {<<>>}
    ELSE {Append(x, c) : x \in NamesOfLen(n - 1), c \in NameChars}

\* The end of the longest match of [^A-Za-z0-9.]+ that starts at i.
RECURSIVE MatchEnd(_, _)
MatchEnd(name, i) ==
    IF i < Len(name) /\ ~SafeChar(name[i + 1])
    THEN MatchEnd(name, i + 1)
    ELSE i

RECURSIVE SubFrom(_, _)
SubFrom(name, i) ==
    IF i > Len(name) THEN <<>>
    ELSE IF SafeChar(name[i]) THEN <<name[i]>> \o SubFrom(name, i + 1)
    ELSE <<"-">> \o SubFrom(name, MatchEnd(name, i) + 1)

\* A substitution of [^A-Za-z0-9.], without the +: one '-' for each character.
RegexSubEachChar(name) ==
    [i \in 1..Len(name) |-> IF SafeChar(name[i]) THEN name[i] ELSE "-"]

\* SAFE_NAME_REGEX.sub("-", name): from left to right, each longest match is
\* replaced by one '-'.
RegexSub(name) == SubFrom(name, 1)

\* str.lower() of one character.
LowerChar(c) ==
    IF c \in Range(UpperLetters)
    THEN LowerLetters[CHOOSE i \in DOMAIN UpperLetters : UpperLetters[i] = c]
    ELSE c

Lower(name) == [i \in 1..Len(name) |-> LowerChar(name[i])]

bandersnatch_safe_name(name) == Lower(RegexSub(name))

InitName ==
    /\ nname \in UNION {NamesOfLen(n) : n \in 0..MaxNameLen}
    /\ nout = <<>>
    /\ npc = "input"

\* bandersnatch_safe_name(name)
SafeNameCall ==
    /\ npc = "input"
    /\ nout' = bandersnatch_safe_name(nname)
    /\ npc' = "named"
    /\ UNCHANGED nname
    /\ UNCHANGED <<rwVars, ulVars, itVars, scVars, lkVars, exVars>>

\* bandersnatch_safe_name applied to the name it returned.
SafeNameAgain ==
    /\ npc = "named"
    /\ nname' = nout
    /\ nout' = bandersnatch_safe_name(nout)
    /\ npc' = "renamed"
    /\ UNCHANGED <<rwVars, ulVars, itVars, scVars, lkVars, exVars>>

NextName ==
    \/ SafeNameCall
    \/ SafeNameAgain

----------------------------------------------------------------------------
(* Specifications *)

\* The state of rewrite while no rewrite is modelled.
NoRewrite ==
    /\ dirents = <<>>
    /\ inodes = <<>>
    /\ pc = [w \in Writers |-> "idle"]
    /\ arg = [w \in Writers |-> NoArg]
    /\ tmpname = [w \in Writers |-> <<>>]
    /\ fopen = [w \in Writers |-> FALSE]
    /\ buf = [w \in Writers |-> <<>>]
    /\ written = [w \in Writers |-> <<>>]
    /\ drawn = {}
    /\ err = [w \in Writers |-> "none"]
    /\ removed = [w \in Writers |-> FALSE]

\* The state of unlink_parent_dir while no call of it is modelled.
NoUnlink ==
    /\ tree = <<>>
    /\ upc = "idle"
    /\ upath = <<>>
    /\ upre = <<>>
    /\ ucalls = 0

\* The state of the stream while no iteration is modelled.
NoStream ==
    /\ content = <<>>
    /\ pos = 0
    /\ rlog = <<>>
    /\ yielded = <<>>
    /\ ipc = "iter"

\* The state of the stream scopes while none is modelled.
NoScope ==
    /\ sscopes = <<>>
    /\ sexc = "none"
    /\ sclose = <<>>
    /\ sexit = <<>>
    /\ sthrown = 0
    /\ scaught = 0

\* The state of the locks while none is modelled.
NoLock ==
    /\ token = "none"
    /\ counter = <<>>
    /\ scopes = <<>>
    /\ lexc = <<>>
    /\ entered = <<>>
    /\ failed = <<>>
    /\ released = <<>>
    /\ forced = <<>>
    /\ bodies = <<>>

\* The state of the decorator while no decoration is modelled.
NoExec ==
    /\ edeco = NoObj
    /\ efunc = "none"
    /\ eexec = "None"
    /\ eloop = FALSE
    /\ ecalls = <<>>
    /\ eawaits = <<>>
    /\ esubmitted = <<>>
    /\ epc = "start"

\* The state of the safe name while none is computed.
NoName ==
    /\ nname = <<>>
    /\ nout = <<>>
    /\ npc = "input"

\* Concurrent rewrite scopes over one filesystem.
Init ==
    InitRewrite /\ NoUnlink /\ NoStream /\ NoScope /\ NoLock /\ NoExec /\ NoName

Next == NextRewrite

Spec == Init /\ [][Next]_vars

\* Successive calls of unlink_parent_dir over a directory tree.
InitU ==
    InitUnlink /\ NoRewrite /\ NoStream /\ NoScope /\ NoLock /\ NoExec /\ NoName

SpecUnlink == InitU /\ [][NextUnlink]_vars

\* One iteration over a stream.
InitI ==
    InitIter /\ NoRewrite /\ NoUnlink /\ NoScope /\ NoLock /\ NoExec /\ NoName

SpecIter == InitI /\ [][NextIter]_vars

\* Nested 'async with' scopes over streams, in one task.
InitS ==
    InitScope /\ NoRewrite /\ NoUnlink /\ NoStream /\ NoLock /\ NoExec /\ NoName

SpecScope == InitS /\ [][NextScope]_vars

\* Two tasks entering and leaving 'async with' scopes over two lock objects.
InitL ==
    InitLock /\ NoRewrite /\ NoUnlink /\ NoStream /\ NoScope /\ NoExec /\ NoName

SpecLock == InitL /\ [][NextLock]_vars

\* One decoration by run_in_executor and the uses of the decorated name.
InitE ==
    InitExec /\ NoRewrite /\ NoUnlink /\ NoStream /\ NoScope /\ NoLock /\ NoName

SpecExec == InitE /\ [][NextExec]_vars

\* bandersnatch_safe_name, applied to a name and then to its own result.
InitN ==
    InitName /\ NoRewrite /\ NoUnlink /\ NoStream /\ NoScope /\ NoLock /\ NoExec

SpecName == InitN /\ [][NextName]_vars

----------------------------------------------------------------------------
(* rewrite: the claims *)

TmpLoc(w) == Resolve(tmpname[w])

\* The target of writer w names the file writer w staged.
AtTarget(w) == Target(w) \in DOMAIN dirents /\ dirents[Target(w)] = w

\* The scope of writer w was left normally (no error thrown into it).
LeftNormally(w) ==
    pc[w] \in {"closed", "chmod", "move", "committed", "skipped", "raised"}
    /\ err[w] # "body"

\* The locations writer w's staged file is visible at, other than its
\* temporary name.
Installed(w) == {l \in DOMAIN dirents : dirents[l] = w /\ l # TmpLoc(w)}

\* rw-r--r--
RwRR == 6 * 64 + 4 * 8 + 4

\* C1: when the caller wrote b to the stream and rewrite has committed, the
\* target reads exactly b: the staged file holds everything the caller wrote
\* and nothing else, and the target names it (until a later rewrite of the
\* same target commits its own file).
C1_CommittedTargetReadsWritten ==
    \A w \in Writers :
        pc[w] = "committed" =>
            /\ Target(w) \in DOMAIN dirents
            /\ inodes[w].content = written[w]
            /\ \/ dirents[Target(w)] = w
               \/ \E v \in Writers \ {w} :
                     /\ pc[v] = "committed"
                     /\ Target(v) = Target(w)
                     /\ dirents[Target(w)] = v
                     /\ inodes[v].content = written[v]

\* A rewrite of an existing file with other content has committed two chunks.
C1_Witness ==
    \E w \in Writers :
        /\ pc[w] = "committed"
        /\ AtTarget(w)
        /\ Len(written[w]) = 2
        /\ inodes[w].content = written[w]
        /\ "i0" \in DOMAIN inodes
        /\ Target(w) = << <<"t">> >>

\* C2: at every point of every rewrite, a target path names either a file
\* with the complete old content or the complete content of a committed
\* rewrite of that path, closed and flushed; a target that existed never
\* disappears; and an old file, which a reader may still hold open, keeps its
\* content.
C2_ReaderSeesOldOrNew ==
    /\ \A l \in DOMAIN OldFiles :
          OldFiles[l] \in DOMAIN inodes =>
              /\ l \in DOMAIN dirents
              /\ inodes[OldFiles[l]].content = OldContent
    /\ \A l \in DOMAIN dirents :
          (\E w \in Writers : pc[w] # "idle" /\ Target(w) = l) =>
              \/ dirents[l] \in OldInodes
              \/ \E w \in Writers :
                    /\ dirents[l] = w
                    /\ pc[w] = "committed"
                    /\ Target(w) = l
                    /\ ~fopen[w]
                    /\ buf[w] = <<>>
                    /\ inodes[w].content = written[w]

\* A rewrite is under way with part of its content in the temporary file and
\* part still buffered, while the target holds the old file.
C2_Witness ==
    \E w \in Writers :
        /\ pc[w] = "body"
        /\ inodes[w].content # <<>>
        /\ buf[w] # <<>>
        /\ Target(w) \in DOMAIN dirents
        /\ dirents[Target(w)] \in OldInodes

\* C3: a scope left by an error of the caller's body (or a cancellation)
\* ends the rewrite there, and the staged file is installed nowhere: the
\* target was not written by this rewrite, whatever was written to the
\* stream.
C3_BodyErrorLeavesTarget ==
    \A w \in Writers :
        err[w] = "body" =>
            /\ pc[w] = "raised"
            /\ Installed(w) = {}
            /\ ~AtTarget(w)

\* A caller wrote and flushed a chunk, then raised; the target is the old file.
C3_Witness ==
    \E w \in Writers :
        /\ err[w] = "body"
        /\ inodes[w].content # <<>>
        /\ Target(w) \in DOMAIN dirents
        /\ dirents[Target(w)] \in OldInodes

\* C4: when the caller removed the temporary file inside the scope and left
\* the scope normally, rewrite returns without an error, the staged file's
\* mode was not changed, and the staged file is installed nowhere.
C4_RemovedTmpSkipsCommit ==
    \A w \in Writers :
        (removed[w] /\ LeftNormally(w)) =>
            /\ pc[w] \in {"closed", "skipped"}
            /\ err[w] = "none"
            /\ inodes[w].mode = TempMode
            /\ Installed(w) = {}
            /\ ~AtTarget(w)

\* A caller wrote, removed the temporary file and left the scope; rewrite
\* returned, and the target does not exist, as before.
C4_Witness ==
    \E w \in Writers :
        /\ removed[w]
        /\ pc[w] = "skipped"
        /\ written[w] # <<>>
        /\ Target(w) \notin DOMAIN dirents

\* C5 as claimed: once the rewrite scope has been exited on any path, no file
\* with the temporary name remains.
C5_NoTmpAfterAnyExit ==
    \A w \in Writers :
        pc[w] \in {"committed", "skipped", "raised"} => ~TmpExists(w)

\* C5 as amended: after a rewrite that returned normally no file with the
\* temporary name remains; after a caller's error or a failed chmod the
\* temporary file is still there under its temporary name, unless the caller
\* had removed it.
C5_TmpGoneOnlyOnNormalReturn ==
    \A w \in Writers :
        /\ pc[w] \in {"committed", "skipped"} =>
              /\ ~TmpExists(w)
              /\ \A l \in DOMAIN dirents : dirents[l] = w => l = Target(w)
        /\ (pc[w] = "raised" /\ ~removed[w]) =>
              /\ TmpExists(w)
              /\ dirents[TmpLoc(w)] = w

\* One rewrite has committed and another was left by an error.
C5_Witness ==
    \E v, w \in Writers :
        /\ pc[v] = "committed"
        /\ pc[w] = "raised"
        /\ err[w] = "body"
        /\ TmpExists(w)

\* C6: wherever the staged file of a rewrite is visible under another name
\* than its temporary one, its mode is rw-r--r--.
C6_NewContentHasCommitMode ==
    \A w \in Writers :
        \A l \in Installed(w) : inodes[w].mode = RwRR

\* A rewrite has committed: its file, created with mode 0600, is at the target.
C6_Witness ==
    \E w \in Writers :
        /\ pc[w] = "committed"
        /\ AtTarget(w)
        /\ TempMode # RwRR
        /\ inodes[w].mode = RwRR

\* C7: when os.chmod fails, the error leaves rewrite, the move is not done and
\* the staged file is installed nowhere: the target is not written.
C7_ChmodErrorLeavesTarget ==
    \A w \in Writers :
        err[w] = "chmod" =>
            /\ pc[w] = "raised"
            /\ Installed(w) = {}
            /\ ~AtTarget(w)

\* The chmod of a rewrite of an existing file has failed.
C7_Witness ==
    \E w \in Writers :
        /\ err[w] = "chmod"
        /\ written[w] # <<>>
        /\ Target(w) \in DOMAIN dirents
        /\ dirents[Target(w)] \in OldInodes

\* C8: for a string or a Path naming a file, the temporary file is in the
\* directory of the target, is named "." + the target's file name + "." + a
\* random part, which is not the target's name, and two scopes open at once
\* never have the same temporary file.
C8_TmpIsDotNamedSibling ==
    /\ \A w \in Writers :
          pc[w] # "idle" =>
              /\ Target(w) # <<>>
              /\ TmpLoc(w) # <<>>
              /\ Front(TmpLoc(w)) = Front(Target(w))
              /\ \E r \in Suffixes :
                    Last(TmpLoc(w)) = <<".">> \o Last(Target(w)) \o <<".", r>>
              /\ Last(TmpLoc(w)) # Last(Target(w))
    /\ \A v, w \in Writers :
          (v # w /\ fopen[v] /\ fopen[w]) => TmpLoc(v) # TmpLoc(w)

\* Two scopes are open on one target, one given as a string and one as a
\* Path, in a directory.
C8_Witness ==
    \E v, w \in Writers :
        /\ fopen[v] /\ fopen[w]
        /\ arg[v].kind = "str" /\ arg[w].kind = "path"
        /\ Target(v) = Target(w)
        /\ Len(Target(v)) = 2

\* C14: once the scope of a rewrite has been left, on any path, its stream is
\* closed and nothing is left in its buffer; the close comes before the
\* existence check, the chmod and the move, so the staged file holds
\* everything the caller wrote when it is checked, changed and moved.
C14_ClosedBeforeCommit ==
    \A w \in Writers :
        pc[w] \in {"closed", "chmod", "move", "committed", "skipped", "raised"} =>
            /\ ~fopen[w]
            /\ buf[w] = <<>>
            /\ inodes[w].content = written[w]

\* A caller wrote two chunks, none of them flushed inside the scope, and the
\* rewrite is about to move the staged file.
C14_Witness ==
    \E w \in Writers :
        /\ pc[w] = "move"
        /\ Len(written[w]) = 2
        /\ inodes[w].content = written[w]
        /\ ~fopen[w]

----------------------------------------------------------------------------
(* unlink_parent_dir and the stream iteration: the claims *)

\* The entries of the tree before the call, other than the file, that are in
\* the parent directory of the path.
Siblings == {l \in DOMAIN upre : l # upath /\ Front(l) = Front(upath)}

\* C9: a call on an existing file returns normally, with the file removed;
\* the parent directory is removed with it exactly when nothing else was in
\* it, and everything else in the tree is as it was.
C9_UnlinkRemovesFileAndEmptyParent ==
    /\ (upc \in {"unlinked", "returned", "raised"}
            /\ upath \in DOMAIN upre /\ upre[upath] = "file") =>
          /\ upc # "raised"
          /\ upath \notin DOMAIN tree
    /\ upc = "returned" =>
          /\ upath \in DOMAIN upre /\ upre[upath] = "file"
          /\ DOMAIN tree =
                IF Siblings = {}
                THEN DOMAIN upre \ {upath, Front(upath)}
                ELSE DOMAIN upre \ {upath}
          /\ \A l \in DOMAIN tree : tree[l] = upre[l]

\* A first call removed the last file of p/s and p/s with it; a second one
\* removed p/a and left p, which still holds p/b.
C9_Witness ==
    /\ upc = "returned"
    /\ ucalls = 2
    /\ upath = <<"p", "a">>
    /\ <<"p", "b">> \in DOMAIN tree
    /\ <<"p">> \in DOMAIN tree
    /\ <<"p", "s">> \notin DOMAIN tree

\* The lines of a sequence of lines, one after the other.
RECURSIVE Flatten(_)
Flatten(ls) == IF ls = <<>> THEN <<>> ELSE Head(ls) \o Flatten(Tail(ls))

\* C10: the iteration yields the results of the successive readline() calls,
\* in order, up to the first empty one, which ends it and is not yielded: the
\* lines yielded are the bytes from the cursor on, each ended by its line
\* feed but the last; "a\nb\nc" yields "a\n", "b\n", "c"; a stream at its end
\* yields nothing.
C10_IterationYieldsLines ==
    /\ \A k \in 1..Len(yielded) : yielded[k] # <<>>
    /\ ipc = "iter" => yielded = rlog
    /\ ipc = "stopped" =>
          /\ rlog = Append(yielded, <<>>)
          /\ pos = Len(content)
    /\ Len(Flatten(yielded)) <= pos
    /\ Flatten(yielded) = SubSeq(content, pos - Len(Flatten(yielded)) + 1, pos)
    /\ \A k \in 1..Len(yielded) :
          /\ \A j \in 1..(Len(yielded[k]) - 1) : yielded[k][j] # "\n"
          /\ k < Len(yielded) => Last(yielded[k]) = "\n"
    /\ (ipc = "stopped" /\ content = <<"a", "\n", "b", "\n", "c">>
            /\ Len(Flatten(yielded)) = 5) =>
          yielded = << <<"a", "\n">>, <<"b", "\n">>, <<"c">> >>

\* The iteration over "a\nb\nc" from its start has ended.
C10_Witness ==
    /\ ipc = "stopped"
    /\ content = <<"a", "\n", "b", "\n", "c">>
    /\ yielded = << <<"a", "\n">>, <<"b", "\n">>, <<"c">> >>
    /\ Len(rlog) = 4

\* C17: when path.unlink() fails (the path is missing, or is a directory),
\* the call ends with that error and nothing is removed: the parent directory
\* is still there, even when it is empty.
C17_UnlinkErrorPropagates ==
    (upc \in {"unlinked", "returned", "raised"} /\ ~UnlinkOk(upre, upath)) =>
        /\ upc = "raised"
        /\ tree = upre
        /\ Front(upath) \in DOMAIN upre => Front(upath) \in DOMAIN tree

\* A call on the missing file p/s/a has raised; p/s is empty and still there.
C17_Witness ==
    /\ upc = "raised"
    /\ upath = <<"p", "s", "a">>
    /\ <<"p", "s">> \in DOMAIN tree
    /\ Children(tree, <<"p", "s">>) = {}

----------------------------------------------------------------------------
(* The scopes over streams and locks: the claims *)

\* C11: every exit of an 'async with' scope over a stream, normal or with an
\* error or a cancellation in flight, calls close() on that stream exactly
\* once, and every exception raised in a body is either still in flight or
\* has reached the caller: none is lost in the close.
C11_StreamClosedOnEveryExit ==
    /\ \A s \in Streams : sclose[s] = sexit[s]
    /\ sthrown = scaught + (IF sexc = "none" THEN 0 ELSE 1)

\* Two nested scopes over s1 were left with an error in flight, which the
\* caller then got: s1 was closed twice, once for each scope.
C11_Witness ==
    /\ sscopes = <<>>
    /\ sexit["s1"] = 2
    /\ sclose["s1"] = 2
    /\ sthrown = 1
    /\ scaught = 1

\* The number of open scopes over lock l, over all tasks.
RECURSIVE CountIn(_, _)
CountIn(seq, l) ==
    IF seq = <<>> THEN 0
    ELSE (IF seq[1] = l THEN 1 ELSE 0) + CountIn(Tail(seq), l)

OpenOn(l) == CountIn(scopes["t1"], l) + CountIn(scopes["t2"], l)

\* C12: in every task, the scopes opened are exactly the successful acquire()
\* calls of __aenter__, each started its body after the acquire, each scope
\* left, normally or with an error, made one release() call, none with force:
\* the release calls and the scopes still open add up to the successful
\* acquire calls, and are equal to them once every scope is left.
C12_ReleaseMatchesAcquire ==
    \A t \in Tasks :
        /\ released[t] + Len(scopes[t]) = entered[t]
        /\ bodies[t] = entered[t]
        /\ forced[t] = 0
        /\ scopes[t] = <<>> => released[t] = entered[t]

\* Task t1 has left two nested scopes, the inner one with an error in flight.
C12_Witness ==
    /\ scopes["t1"] = <<>>
    /\ entered["t1"] = 2
    /\ released["t1"] = 2
    /\ lexc["t1"] = "Error"

\* C13: the counter of a lock object is the number of acquisitions not yet
\* released; while it is not zero, after a second acquire() or after the
\* first of two release() calls, that object holds the token and no other
\* owner has acquired.
C13_ReentrantUntilLastRelease ==
    \A l \in Locks :
        /\ counter[l] = OpenOn(l)
        /\ counter[l] > 0 =>
              /\ token = l
              /\ \A m \in Locks \ {l} : counter[m] = 0

\* Task t1 acquired A twice and released it once; task t2 then tried to
\* acquire B, which failed, and A still holds the token.
C13_Witness ==
    /\ entered["t1"] = 2
    /\ released["t1"] = 1
    /\ scopes["t1"] = <<"A">>
    /\ failed["t2"] = 1
    /\ token = "A"
    /\ counter["A"] = 1

\* C18: a step in which the acquire() of a scope entry fails starts no body,
\* opens no scope, calls no release(), leaves the token and every counter as
\* they were, and leaves the failure in flight in that task.
C18_FailedEntryReleasesNothing ==
    [][\A t \in Tasks :
          failed'[t] # failed[t] =>
              /\ lexc'[t] \in AcquireErrors
              /\ bodies' = bodies
              /\ scopes' = scopes
              /\ released' = released
              /\ token' = token
              /\ counter' = counter]_vars

\* Inside its scope over A, task t1 failed to enter a scope over B: the scope
\* over A is still open and A's counter is still 1.
C18_Witness ==
    /\ scopes["t1"] = <<"A">>
    /\ failed["t1"] = 1
    /\ lexc["t1"] = "Timeout"
    /\ counter["A"] = 1
    /\ released["t1"] = 0

----------------------------------------------------------------------------
(* run_in_executor and bandersnatch_safe_name: the claims *)

\* C15: the decorated name is a callable; every call of it inside a running
\* loop hands f, with exactly the arguments of the call, to the executor the
\* decorator was given and returns what f returns; and nothing is handed to
\* an executor before the decorated name is used.
C15_DecoratedCallRunsFunction ==
    /\ epc = "decorated" => edeco.kind = "function"
    /\ \A i \in DOMAIN ecalls :
          /\ ecalls[i].outcome =
                 Value(FResult(efunc, ecalls[i].args, ecalls[i].kw))
          /\ \E j \in DOMAIN esubmitted :
                 esubmitted[j] =
                     [executor |-> eexec, func |-> efunc,
                      args |-> ecalls[i].args, kw |-> ecalls[i].kw]
    /\ (ecalls = <<>> /\ eawaits = <<>>) => esubmitted = <<>>

\* f was decorated for the pool, with no loop running, and then called with
\* (1, 2, k=7) inside the loop: the call raised TypeError and f was handed to
\* no executor.
C15_Witness ==
    /\ epc = "decorated"
    /\ efunc = "f"
    /\ eexec = "pool"
    /\ edeco.kind = "coroutine"
    /\ ecalls = <<[args |-> <<1, 2>>, kw |-> << <<"k", 7>> >>,
                  outcome |-> Raises("TypeError")]>>
    /\ esubmitted = <<>>

\* The characters a safe name is made of.
NameAlphabet == Range(LowerLetters) \cup Digits \cup {".", "-"}

\* The positions of name where a run of characters outside A-Za-z0-9. starts.
RunStarts(name) ==
    {i \in 1..Len(name) :
        ~SafeChar(name[i]) /\ (i = 1 \/ SafeChar(name[i - 1]))}

IsDash(c) == c = "-"
NotDash(c) == c # "-"

\* C16: the name returned has one '-' for each maximal run of characters
\* other than ASCII letters, digits and '.', and the other characters in
\* their order, in lower case; it is made of lower-case letters, digits, '.'
\* and '-' only, has no two '-' in a row, and is returned unchanged when the
\* function is applied to it.
C16_SafeNameIsNormalForm ==
    npc \in {"named", "renamed"} =>
        /\ \A i \in DOMAIN nout : nout[i] \in NameAlphabet
        /\ \A i \in 1..(Len(nout) - 1) : ~(nout[i] = "-" /\ nout[i + 1] = "-")
        /\ Len(SelectSeq(nout, IsDash)) = Cardinality(RunStarts(nname))
        /\ SelectSeq(nout, NotDash) = Lower(SelectSeq(nname, SafeChar))
        /\ bandersnatch_safe_name(nout) = nout
        /\ npc = "renamed" => nout = nname

\* 'B_ a' was given: a run of two characters became one '-', and the result
\* was given again and came back unchanged.
C16_Witness ==
    /\ npc = "renamed"
    /\ nname = <<"b", "-", "a">>
    /\ nout = <<"b", "-", "a">>

====
